---- MODULE Spec2Model ----
(***************************************************************************)
(* Model of src/util/glvnd_genentry.c: the runtime generator of entrypoint *)
(* stubs of libglvnd.  The three public operations (generate, update,      *)
(* free) act on the module's static state: the entrypoints[] table, the    *)
(* two views of the stub buffer and the entrypoint count.  Pointers are    *)
(* little-endian byte tuples of the build's pointer width, so that address *)
(* arithmetic wraps as the machine's does, and the stub buffer is a byte   *)
(* array into which the templates and the dispatch addresses are written.  *)
(***************************************************************************)
EXTENDS Integers, Sequences, FiniteSets, TLC

VARIABLES
    isa,                    \* the one ISA backend compiled in (USE_*_ASM)
    entrypoints,            \* static GLVNDGenEntrypoint entrypoints[]
    entrypointBufferWrite,  \* static uint8_t *entrypointBufferWrite
    entrypointBufferExec,   \* static uint8_t *entrypointBufferExec
    entrypointCount,        \* static int entrypointCount
    pages,                  \* live mappings of AllocExecPages: base pair -> bytes
    lastOp,                 \* history: the last public call, its result and its calls out
    handed,                 \* history: first non-null value generate returned per name since the last free
    installed,              \* history: first target update installed per slot since the last free
    calls,                  \* per thread: the position and locals of its glvndGenerateEntrypoint call
    overlapped              \* history: two calls have been in progress at the same time

vars == <<isa, entrypoints, entrypointBufferWrite, entrypointBufferExec,
          entrypointCount, pages, lastOp, handed, installed, calls, overlapped>>

-----------------------------------------------------------------------------
(* Bounds and program constants *)

\* #define GENERATED_ENTRYPOINT_MAX 4096, scaled down to a size TLC can enumerate
GENERATED_ENTRYPOINT_MAX == 2

\* static const int STUB_ENTRY_SIZE = 16
STUB_ENTRY_SIZE == 16

\* DISPATCH_FUNC_OFFSET_REL of the x86 build
DISPATCH_FUNC_OFFSET_REL == 5

ISAs == {"x86", "x86_64", "armv7"}

\* sizeof(void *) of the build
PtrLen == IF isa = "x86_64" THEN 8 ELSE 4

-----------------------------------------------------------------------------
(* Machine words as little-endian byte tuples *)

RECURSIVE ToBytes(_, _)
ToBytes(n, len) ==
    IF len = 0 THEN <<>> ELSE <<n % 256>> \o ToBytes(n \div 256, len - 1)

RECURSIVE AddCarry(_, _, _, _)
AddCarry(a, b, k, c) ==
    IF k > Len(a) THEN <<>>
    ELSE LET s == a[k] + b[k] + c
         IN  <<s % 256>> \o AddCarry(a, b, k + 1, s \div 256)

\* a + b modulo 2^(8 * Len(a))
AddBytes(a, b) == AddCarry(a, b, 1, 0)

\* a - b modulo 2^(8 * Len(a)): a + ~b + 1
SubBytes(a, b) == AddCarry(a, [k \in 1..Len(a) |-> 255 - b[k]], 1, 1)

\* pointer plus a small byte count
PtrAdd(p, n) == AddBytes(p, ToBytes(n, Len(p)))

\* the byte distance p - base when it lies in 0..65535, else -1
PtrDiff(p, base) ==
    LET d == SubBytes(p, base)
    IN  IF \A k \in 3..Len(d) : d[k] = 0 THEN d[1] + 256 * d[2] ELSE -1

NULL == ToBytes(0, PtrLen)

\* a null char *; no C string holds a NUL byte
NULLSTR == <<0>>

-----------------------------------------------------------------------------
(* Inputs: procedure names, addresses of the address space *)

\* "a", "b", "ab", "ba"
ProcNames == {<<97>>, <<98>>, <<97, 98>>, <<98, 97>>}

\* (write view, exec view) pairs the OS hands out, in the order it tries them: a
\* new mapping goes to the first pair that is not mapped
BasePairs ==
    CASE isa = "x86" ->
            << [write |-> <<0, 0, 112, 183>>, exec |-> <<0, 0, 113, 183>>],     \* 0xB7700000, 0xB7710000
               [write |-> <<0, 0, 16, 8>>,    exec |-> <<0, 0, 17, 8>>] >>      \* 0x08100000, 0x08110000
      [] isa = "x86_64" ->
            << [write |-> <<0, 0, 86, 52, 18, 127, 0, 0>>,                       \* 0x00007F1234560000
                exec  |-> <<0, 0, 87, 52, 18, 127, 0, 0>>],                      \* 0x00007F1234570000
               [write |-> <<0, 0, 0, 171, 0, 127, 0, 0>>,                        \* 0x00007F00AB000000
                exec  |-> <<0, 0, 0, 172, 0, 127, 0, 0>>] >>                     \* 0x00007F00AC000000
      [] isa = "armv7" ->
            << [write |-> <<0, 0, 240, 182>>, exec |-> <<0, 0, 241, 182>>],     \* 0xB6F00000, 0xB6F10000
               [write |-> <<0, 0, 224, 118>>, exec |-> <<0, 0, 225, 118>>] >>   \* 0x76E00000, 0x76E10000

\* dispatch functions a vendor may supply
Targets ==
    CASE isa = "x86"    -> { <<188, 138, 4, 8>>, <<48, 18, 224, 247>> }        \* 0x08048ABC, 0xF7E01230
      [] isa = "x86_64" -> { <<0, 16, 64, 0, 0, 0, 0, 0>>,                      \* 0x0000000000401000
                             <<48, 18, 118, 152, 255, 127, 0, 0>> }             \* 0x00007FFF98761230
      [] isa = "armv7"  -> { <<1, 10, 1, 0>>, <<33, 67, 208, 182>> }            \* 0x00010A01, 0xB6D04321

\* (GLVNDentrypointStub) DefaultDispatchFunc: the address of the function
DefaultDispatchFunc ==
    CASE isa = "x86"    -> <<52, 18, 96, 183>>                                  \* 0xB7601234
      [] isa = "x86_64" -> <<48, 18, 0, 48, 18, 127, 0, 0>>                     \* 0x00007F1230001230
      [] isa = "armv7"  -> <<53, 18, 224, 182>>                                 \* 0xB6E01235

\* what a call of DefaultDispatchFunc returns: return NULL
CallDefaultDispatchFunc == NULL

-----------------------------------------------------------------------------
(* The emitter's templates *)

STUB_TEMPLATE ==
    CASE isa = "x86"    -> <<233, 120, 86, 52, 18>>                             \* e9 78 56 34 12
      [] isa = "x86_64" -> <<72, 184, 189, 172, 205, 171, 120, 86, 52, 18,      \* 48 b8 <imm64>
                             255, 224>>                                         \* ff e0
      [] isa = "armv7"  -> <<223, 248, 4, 192, 96, 71, 0, 191, 0, 0, 0, 0>>     \* f8df c004 4760 bf00 0 0

DISPATCH_FUNC_OFFSET ==
    CASE isa = "x86" -> 1 [] isa = "x86_64" -> 2 [] isa = "armv7" -> 8

SlabSize == STUB_ENTRY_SIZE * GENERATED_ENTRYPOINT_MAX

Slots == 0..(GENERATED_ENTRYPOINT_MAX - 1)

-----------------------------------------------------------------------------
(* libc and the OS glue *)

CharAt(s, k) == IF k <= Len(s) THEN s[k] ELSE 0

\* the comparison loop of strcmp from position k: byte by byte up to the first
\* difference or the terminating NUL
RECURSIVE strcmpFrom(_, _, _)
strcmpFrom(s1, s2, k) ==
    LET c1 == CharAt(s1, k)
        c2 == CharAt(s2, k)
    IN  IF c1 # c2 THEN c1 - c2
        ELSE IF c1 = 0 THEN 0
        ELSE strcmpFrom(s1, s2, k + 1)

\* mutant of strcmp: strncmp(s1, s2, 1), only the first byte is compared
strcmpFirstByte(s1, s2) == CharAt(s1, 1) - CharAt(s2, 1)

strcmp(s1, s2) == strcmpFrom(s1, s2, 1)

\* strdup: a fresh copy of the string, or NULL when malloc fails
strdup(s, ok) == IF ok THEN [k \in 1..Len(s) |-> s[k]] ELSE NULLSTR

\* the bytes of a fresh mapping, byte k of the slab at position k + 1
ZeroPage == [k \in 1..SlabSize |-> 0]

NotCalled == [rc |-> 0, write |-> NULL, exec |-> NULL]

\* outcomes of AllocExecPages: failure, or two fresh aliased views
AllocOutcomes(pg) ==
    { [rc |-> -1, write |-> NULL, exec |-> NULL] }
    \cup { [rc |-> 0, write |-> BasePairs[k].write, exec |-> BasePairs[k].exec] :
              k \in { j \in 1..Len(BasePairs) :
                         /\ BasePairs[j] \notin DOMAIN pg
                         /\ \A i \in 1..(j - 1) : BasePairs[i] \in DOMAIN pg } }

\* AllocExecPages(size, &writeBuf, &execBuf): on success the mapping is live and zeroed
AllocExecPages(st, out) ==
    IF out.rc # 0
    THEN [st EXCEPT !.trace = Append(@, [ev |-> "AllocExecPages", rc |-> out.rc])]
    ELSE LET key == [write |-> out.write, exec |-> out.exec]
         IN  [st EXCEPT !.pages = [p \in DOMAIN st.pages \cup {key} |->
                                      IF p = key THEN ZeroPage ELSE st.pages[p]],
                        !.trace = Append(@, [ev |-> "AllocExecPages", rc |-> out.rc])]

\* FreeExecPages(size, writeBuf, execBuf): unmaps both views
FreeExecPages(st, writeBuf, execBuf) ==
    LET key == [write |-> writeBuf, exec |-> execBuf]
    IN  [st EXCEPT !.pages = [p \in DOMAIN st.pages \ {key} |-> st.pages[p]],
                   !.trace = Append(@, [ev |-> "FreeExecPages", write |-> writeBuf,
                                        exec |-> execBuf,
                                        mapped |-> key \in DOMAIN st.pages])]

\* the live mappings whose writable view holds len bytes at addr
MappingsAt(pg, addr, len) ==
    { p \in DOMAIN pg : LET d == PtrDiff(addr, p.write)
                        IN  d >= 0 /\ d + len <= SlabSize }

\* a store of bytes through the writable view; a store outside every mapping faults
\* and is recorded
Store(st, addr, bytes) ==
    LET ms == MappingsAt(st.pages, addr, Len(bytes))
    IN  IF ms = {}
        THEN [st EXCEPT !.trace = Append(@, [ev |-> "fault"])]
        ELSE LET p == CHOOSE m \in ms : TRUE
                 d == PtrDiff(addr, p.write)
             IN  [st EXCEPT !.pages[p] =
                     SubSeq(@, 1, d) \o bytes \o SubSeq(@, d + Len(bytes) + 1, SlabSize)]

-----------------------------------------------------------------------------
(* The emitter *)

\* mutant of SetDispatchFuncPointer: the x86 displacement is taken from the writable
\* address of the stub instead of the executable one
SetDispatchFuncPointerFromWrite(st, index, dispatch) ==
    LET entry == st.entrypoints[index]
        code  == entry.entrypointWrite
    IN  CASE isa = "x86" ->
                LET offset == SubBytes(SubBytes(dispatch, entry.entrypointWrite),
                                       ToBytes(DISPATCH_FUNC_OFFSET_REL, PtrLen))
                IN  Store(st, PtrAdd(code, DISPATCH_FUNC_OFFSET), offset)
          [] isa = "x86_64" ->
                Store(st, PtrAdd(code, DISPATCH_FUNC_OFFSET), dispatch)
          [] isa = "armv7" ->
                LET st1   == Store(st, PtrAdd(code, DISPATCH_FUNC_OFFSET), dispatch)
                    begin == SubBytes(entry.entrypointExec, ToBytes(1, PtrLen))
                IN  [st1 EXCEPT !.trace = Append(@, [ev |-> "clear_cache", begin |-> begin,
                                                     end |-> PtrAdd(begin, Len(STUB_TEMPLATE))])]

\* mutant of SetDispatchFuncPointer: the ARMv7 cache flush starts at the Thumb-adjusted
\* pointer instead of the even address of the stub
SetDispatchFuncPointerFlushFromThumb(st, index, dispatch) ==
    LET entry == st.entrypoints[index]
        code  == entry.entrypointWrite
    IN  CASE isa = "x86" ->
                LET offset == SubBytes(SubBytes(dispatch, entry.entrypointExec),
                                       ToBytes(DISPATCH_FUNC_OFFSET_REL, PtrLen))
                IN  Store(st, PtrAdd(code, DISPATCH_FUNC_OFFSET), offset)
          [] isa = "x86_64" ->
                Store(st, PtrAdd(code, DISPATCH_FUNC_OFFSET), dispatch)
          [] isa = "armv7" ->
                LET st1   == Store(st, PtrAdd(code, DISPATCH_FUNC_OFFSET), dispatch)
                    st2   == IF entry.entrypointExec[1] % 2 = 1 THEN st1
                             ELSE [st1 EXCEPT !.trace = Append(@, [ev |-> "assert"])]
                    begin == entry.entrypointExec
                IN  [st2 EXCEPT !.trace = Append(@, [ev |-> "clear_cache", begin |-> begin,
                                                     end |-> PtrAdd(begin, Len(STUB_TEMPLATE))])]

\* mutant of SetDispatchFuncPointer: the x86 displacement is not reduced by
\* DISPATCH_FUNC_OFFSET_REL
SetDispatchFuncPointerNoRel(st, index, dispatch) ==
    LET entry == st.entrypoints[index]
        code  == entry.entrypointWrite
    IN  CASE isa = "x86" ->
                Store(st, PtrAdd(code, DISPATCH_FUNC_OFFSET),
                      SubBytes(dispatch, entry.entrypointExec))
          [] isa = "x86_64" ->
                Store(st, PtrAdd(code, DISPATCH_FUNC_OFFSET), dispatch)
          [] isa = "armv7" ->
                LET st1   == Store(st, PtrAdd(code, DISPATCH_FUNC_OFFSET), dispatch)
                    st2   == IF entry.entrypointExec[1] % 2 = 1 THEN st1
                             ELSE [st1 EXCEPT !.trace = Append(@, [ev |-> "assert"])]
                    begin == SubBytes(entry.entrypointExec, ToBytes(1, PtrLen))
                IN  [st2 EXCEPT !.trace = Append(@, [ev |-> "clear_cache", begin |-> begin,
                                                     end |-> PtrAdd(begin, Len(STUB_TEMPLATE))])]

\* SetDispatchFuncPointer(&entrypoints[index], dispatch)
SetDispatchFuncPointer(st, index, dispatch) ==
    LET entry == st.entrypoints[index]
        code  == entry.entrypointWrite
    IN  CASE isa = "x86" ->
                \* intptr_t offset = dispatch - entrypointExec - DISPATCH_FUNC_OFFSET_REL
                LET offset == SubBytes(SubBytes(dispatch, entry.entrypointExec),
                                       ToBytes(DISPATCH_FUNC_OFFSET_REL, PtrLen))
                IN  Store(st, PtrAdd(code, DISPATCH_FUNC_OFFSET), offset)
          [] isa = "x86_64" ->
                Store(st, PtrAdd(code, DISPATCH_FUNC_OFFSET), dispatch)
          [] isa = "armv7" ->
                LET st1   == Store(st, PtrAdd(code, DISPATCH_FUNC_OFFSET), dispatch)
                    st2   == IF entry.entrypointExec[1] % 2 = 1 THEN st1
                             ELSE [st1 EXCEPT !.trace = Append(@, [ev |-> "assert"])]
                    begin == SubBytes(entry.entrypointExec, ToBytes(1, PtrLen))
                IN  [st2 EXCEPT !.trace = Append(@, [ev |-> "clear_cache", begin |-> begin,
                                                     end |-> PtrAdd(begin, Len(STUB_TEMPLATE))])]

\* mutant of GenerateEntrypointFunc: the index is not scaled by STUB_ENTRY_SIZE
GenerateEntrypointFuncUnscaled(st, index) ==
    LET w   == PtrAdd(st.entrypointBufferWrite, index)
        e   == PtrAdd(st.entrypointBufferExec, index)
        st1 == [st EXCEPT !.entrypoints[index].entrypointWrite = w,
                          !.entrypoints[index].entrypointExec = e]
        st2 == Store(st1, w, STUB_TEMPLATE)
        st3 == IF isa = "armv7"
               THEN [st2 EXCEPT !.entrypoints[index].entrypointExec = PtrAdd(e, 1)]
               ELSE st2
    IN  SetDispatchFuncPointer(st3, index, DefaultDispatchFunc)

\* GenerateEntrypointFunc(&entrypoints[index], index)
GenerateEntrypointFunc(st, index) ==
    LET w   == PtrAdd(st.entrypointBufferWrite, index * STUB_ENTRY_SIZE)
        e   == PtrAdd(st.entrypointBufferExec, index * STUB_ENTRY_SIZE)
        st1 == [st EXCEPT !.entrypoints[index].entrypointWrite = w,
                          !.entrypoints[index].entrypointExec = e]
        \* memcpy(entry->entrypointWrite, STUB_TEMPLATE, sizeof(STUB_TEMPLATE))
        st2 == Store(st1, w, STUB_TEMPLATE)
        st3 == IF isa = "armv7"
               THEN [st2 EXCEPT !.entrypoints[index].entrypointExec = PtrAdd(e, 1)]
               ELSE st2
    IN  SetDispatchFuncPointer(st3, index, DefaultDispatchFunc)

\* the bytes of the slot behind an executable address, or <<>> when none is mapped there
SlotBytes(pg, execAddr) ==
    LET ms == { p \in DOMAIN pg : LET d == PtrDiff(execAddr, p.exec)
                                  IN  d >= 0 /\ d + STUB_ENTRY_SIZE <= SlabSize }
    IN  IF ms = {} THEN <<>>
        ELSE LET p == CHOOSE m \in ms : TRUE
                 d == PtrDiff(execAddr, p.exec)
             IN  SubSeq(pg[p], d + 1, d + STUB_ENTRY_SIZE)

\* Where the CPU goes when the stub at entrypointExec is called: the decoded jump
\* destination, or <<>> when the bytes there are not the stub's instructions.
StubTarget(pg, entrypointExec) ==
    LET pc == IF isa = "armv7" THEN SubBytes(entrypointExec, ToBytes(1, PtrLen))
              ELSE entrypointExec
        b  == SlotBytes(pg, pc)
    IN  IF b = <<>> THEN <<>>
        ELSE CASE isa = "x86" ->
                    \* jmp rel32: next instruction address plus the signed displacement
                    IF b[1] = 233
                    THEN AddBytes(PtrAdd(pc, 5), SubSeq(b, 2, 5))
                    ELSE <<>>
               [] isa = "x86_64" ->
                    \* movabs imm64, %rax; jmp *%rax
                    IF SubSeq(b, 1, 2) = <<72, 184>> /\ SubSeq(b, 11, 12) = <<255, 224>>
                    THEN SubSeq(b, 3, 10)
                    ELSE <<>>
               [] isa = "armv7" ->
                    \* ldr ip, [pc, #4]; bx ip; nop; .word target  (Thumb state required)
                    IF entrypointExec[1] % 2 = 1
                       /\ SubSeq(b, 1, 8) = SubSeq(STUB_TEMPLATE, 1, 8)
                    THEN SubSeq(b, 9, 12)
                    ELSE <<>>

-----------------------------------------------------------------------------
(* The module's static state as one record, and the public operations on it *)

\* static GLVNDGenEntrypoint entrypoints[GENERATED_ENTRYPOINT_MAX] = {}
EmptyEntry ==
    [procName |-> NULLSTR, entrypointWrite |-> NULL, entrypointExec |-> NULL, assigned |-> 0]

\* the static state at the entry of a public call
Cur ==
    [entrypoints           |-> entrypoints,
     entrypointBufferWrite |-> entrypointBufferWrite,
     entrypointBufferExec  |-> entrypointBufferExec,
     entrypointCount       |-> entrypointCount,
     pages                 |-> pages,
     trace                 |-> <<>>]

\* mutant of InitEntrypoints: a failed allocation is not reported
InitEntrypointsIgnoresFailure(st, alloc) ==
    IF st.entrypointBufferExec = NULL
    THEN [st |-> [AllocExecPages(st, alloc) EXCEPT !.entrypointBufferWrite = alloc.write,
                                                   !.entrypointBufferExec = alloc.exec],
          rc |-> 0]
    ELSE [st |-> st, rc |-> 0]

\* the static state, without the record of the calls made
Static(st) == [st EXCEPT !.trace = <<>>]

\* InitEntrypoints(): [st, rc]
InitEntrypoints(st, alloc) ==
    IF st.entrypointBufferExec = NULL
    THEN LET st1 == AllocExecPages(st, alloc)
         IN  IF alloc.rc # 0
             THEN [st |-> st1, rc |-> -1]
             ELSE [st |-> [st1 EXCEPT !.entrypointBufferWrite = alloc.write,
                                      !.entrypointBufferExec = alloc.exec],
                   rc |-> 0]
    ELSE [st |-> st, rc |-> 0]

\* the lookup loop of glvndGenerateEntrypoint: the first index i >= from with
\* strcmp(procName, entrypoints[i].procName) == 0, or -1
RECURSIVE FindEntrypoint(_, _, _)
FindEntrypoint(st, procName, i) ==
    IF ~(i < st.entrypointCount) THEN -1
    ELSE IF strcmp(procName, st.entrypoints[i].procName) = 0 THEN i
    ELSE FindEntrypoint(st, procName, i + 1)

\* mutant of LookupEntrypoint: the loop starts at i = 1
LookupEntrypointFromOne(st, procName) == FindEntrypoint(st, procName, 1)

\* for (i=0; i<entrypointCount; i++) if (strcmp(...) == 0) ...
LookupEntrypoint(st, procName) == FindEntrypoint(st, procName, 0)

\* mutant of InsertEntrypoint: the count is incremented before the copy is checked
InsertEntrypointCountFirst(st, procName, dupOk) ==
    LET index == st.entrypointCount
        name  == strdup(procName, dupOk)
        st1   == [st EXCEPT !.entrypoints[index].procName = name,
                            !.entrypointCount = @ + 1,
                            !.trace = Append(@, [ev |-> "strdup", ok |-> name # NULLSTR])]
    IN  IF name = NULLSTR THEN [st |-> st1, ret |-> NULL]
        ELSE LET st3 == GenerateEntrypointFunc(
                            [st1 EXCEPT !.entrypoints[index].assigned = 0], index)
             IN  [st |-> st3, ret |-> st3.entrypoints[index].entrypointExec]

\* the block of glvndGenerateEntrypoint under if (entrypointCount < GENERATED_ENTRYPOINT_MAX)
InsertEntrypoint(st, procName, dupOk) ==
    LET index == st.entrypointCount
        name  == strdup(procName, dupOk)
        st1   == [st EXCEPT !.entrypoints[index].procName = name,
                            !.trace = Append(@, [ev |-> "strdup", ok |-> name # NULLSTR])]
    IN  IF name = NULLSTR THEN [st |-> st1, ret |-> NULL]
        ELSE LET st2 == [st1 EXCEPT !.entrypoints[index].assigned = 0]
                 st3 == GenerateEntrypointFunc(st2, index)
                 st4 == [st3 EXCEPT !.entrypointCount = @ + 1]
             IN  [st |-> st4, ret |-> st4.entrypoints[index].entrypointExec]

\* mutant of CapacityExhausted: the last entry's stub is returned instead of NULL
CapacityExhaustedLastEntry(st) ==
    [st |-> st, ret |-> st.entrypoints[GENERATED_ENTRYPOINT_MAX - 1].entrypointExec]

\* the final return NULL of glvndGenerateEntrypoint, reached when the table is full
CapacityExhausted(st) == [st |-> st, ret |-> NULL]

\* mutant of glvndGenerateEntrypoint: the capacity is tested before the lookup
glvndGenerateEntrypointCapacityFirst(st0, procName, alloc, dupOk) ==
    LET init == InitEntrypoints(st0, alloc)
        st   == init.st
    IN  IF init.rc # 0 THEN [st |-> st, ret |-> NULL]
        ELSE IF ~(st.entrypointCount < GENERATED_ENTRYPOINT_MAX)
        THEN CapacityExhausted(st)
        ELSE LET found == LookupEntrypoint(st, procName)
             IN  IF found >= 0
                 THEN [st |-> st, ret |-> st.entrypoints[found].entrypointExec]
                 ELSE InsertEntrypoint(st, procName, dupOk)

\* glvndGenerateEntrypoint(procName): [st, ret]
glvndGenerateEntrypoint(st0, procName, alloc, dupOk) ==
    LET init == InitEntrypoints(st0, alloc)
        st   == init.st
    IN  IF init.rc # 0 THEN [st |-> st, ret |-> NULL]
        ELSE LET found == LookupEntrypoint(st, procName)
             IN  IF found >= 0
                 THEN [st |-> st, ret |-> st.entrypoints[found].entrypointExec]
                 ELSE IF st.entrypointCount < GENERATED_ENTRYPOINT_MAX
                 THEN InsertEntrypoint(st, procName, dupOk)
                 ELSE CapacityExhausted(st)

\* mutant of UpdateEntry: the resolved address is stored as the entry's stub address
UpdateEntryStoresExec(st, callback, i) ==
    IF st.entrypoints[i].assigned = 0
    THEN LET addr == callback[st.entrypoints[i].procName]
             st1  == [st EXCEPT !.trace = Append(@, [ev |-> "callback", index |-> i,
                                                     procName |-> st.entrypoints[i].procName,
                                                     addr |-> addr])]
         IN  IF addr # NULL
             THEN [SetDispatchFuncPointer(st1, i, addr) EXCEPT
                      !.entrypoints[i].entrypointExec = addr,
                      !.entrypoints[i].assigned = 1]
             ELSE st1
    ELSE st

\* mutant of UpdateEntry: the assigned flag is not tested
UpdateEntryIgnoresAssigned(st, callback, i) ==
    LET addr == callback[st.entrypoints[i].procName]
        st1  == [st EXCEPT !.trace = Append(@, [ev |-> "callback", index |-> i,
                                                procName |-> st.entrypoints[i].procName,
                                                addr |-> addr])]
    IN  IF addr # NULL
        THEN [SetDispatchFuncPointer(st1, i, addr) EXCEPT !.entrypoints[i].assigned = 1]
        ELSE st1

\* mutant of UpdateEntry: the entry is marked assigned whatever the callback returned
UpdateEntryAlwaysAssigns(st, callback, i) ==
    IF st.entrypoints[i].assigned = 0
    THEN LET addr == callback[st.entrypoints[i].procName]
             st1  == [st EXCEPT !.trace = Append(@, [ev |-> "callback", index |-> i,
                                                     procName |-> st.entrypoints[i].procName,
                                                     addr |-> addr]),
                                !.entrypoints[i].assigned = 1]
         IN  IF addr # NULL THEN SetDispatchFuncPointer(st1, i, addr) ELSE st1
    ELSE st

\* the body of the loop of glvndUpdateEntrypoints for index i
UpdateEntry(st, callback, i) ==
    IF st.entrypoints[i].assigned = 0
    THEN LET addr == callback[st.entrypoints[i].procName]
             st1  == [st EXCEPT !.trace = Append(@, [ev |-> "callback", index |-> i,
                                                     procName |-> st.entrypoints[i].procName,
                                                     addr |-> addr])]
         IN  IF addr # NULL
             THEN [SetDispatchFuncPointer(st1, i, addr) EXCEPT !.entrypoints[i].assigned = 1]
             ELSE st1
    ELSE st

\* mutant of glvndUpdateEntrypointsFrom: the records after i are visited before i
RECURSIVE glvndUpdateEntrypointsLastFirst(_, _, _)
glvndUpdateEntrypointsLastFirst(st, callback, i) ==
    IF ~(i < st.entrypointCount) THEN st
    ELSE UpdateEntry(glvndUpdateEntrypointsLastFirst(st, callback, i + 1), callback, i)

\* glvndUpdateEntrypoints(callback, param): the loop from index i on
RECURSIVE glvndUpdateEntrypointsFrom(_, _, _)
glvndUpdateEntrypointsFrom(st, callback, i) ==
    IF ~(i < st.entrypointCount) THEN st
    ELSE glvndUpdateEntrypointsFrom(UpdateEntry(st, callback, i), callback, i + 1)

glvndUpdateEntrypoints(st, callback) == glvndUpdateEntrypointsFrom(st, callback, 0)

\* mutant of FreeEntry: the assigned flag is not cleared
FreeEntryKeepsAssigned(st, i) ==
    [st EXCEPT !.trace = Append(@, [ev |-> "free", procName |-> st.entrypoints[i].procName]),
               !.entrypoints[i] = [EmptyEntry EXCEPT !.assigned = st.entrypoints[i].assigned]]

\* the body of the loop of glvndFreeEntrypoints for index i
FreeEntry(st, i) ==
    [st EXCEPT !.trace = Append(@, [ev |-> "free", procName |-> st.entrypoints[i].procName]),
               !.entrypoints[i] = EmptyEntry]

RECURSIVE FreeEntriesFrom(_, _)
FreeEntriesFrom(st, i) ==
    IF ~(i < st.entrypointCount) THEN st
    ELSE FreeEntriesFrom(FreeEntry(st, i), i + 1)

\* mutant of glvndFreeEntrypoints: the buffer pointers are not reset after the release
glvndFreeEntrypointsKeepsBuffers(st0) ==
    LET st2 == [FreeEntriesFrom(st0, 0) EXCEPT !.entrypointCount = 0]
    IN  IF st2.entrypointBufferExec # NULL
        THEN FreeExecPages(st2, st2.entrypointBufferWrite, st2.entrypointBufferExec)
        ELSE st2

\* mutant of glvndFreeEntrypoints: the buffer is released only when records were live
glvndFreeEntrypointsOnlyWhenLive(st0) ==
    LET st2 == [FreeEntriesFrom(st0, 0) EXCEPT !.entrypointCount = 0]
    IN  IF st0.entrypointCount > 0 /\ st2.entrypointBufferExec # NULL
        THEN [FreeExecPages(st2, st2.entrypointBufferWrite, st2.entrypointBufferExec)
                 EXCEPT !.entrypointBufferWrite = NULL,
                        !.entrypointBufferExec = NULL]
        ELSE st2

\* mutant of glvndFreeEntrypoints: FreeExecPages is called without the test of
\* entrypointBufferExec
glvndFreeEntrypointsUnconditional(st0) ==
    LET st2 == [FreeEntriesFrom(st0, 0) EXCEPT !.entrypointCount = 0]
    IN  [FreeExecPages(st2, st2.entrypointBufferWrite, st2.entrypointBufferExec)
            EXCEPT !.entrypointBufferWrite = NULL,
                   !.entrypointBufferExec = NULL]

\* glvndFreeEntrypoints()
glvndFreeEntrypoints(st0) ==
    LET st1 == FreeEntriesFrom(st0, 0)
        st2 == [st1 EXCEPT !.entrypointCount = 0]
    IN  IF st2.entrypointBufferExec # NULL
        THEN [FreeExecPages(st2, st2.entrypointBufferWrite, st2.entrypointBufferExec)
                 EXCEPT !.entrypointBufferWrite = NULL,
                        !.entrypointBufferExec = NULL]
        ELSE st2

-----------------------------------------------------------------------------
(* The state machine: the public calls, serialised by the caller *)

\* whether a glvndGenerateEntrypoint call reaches AllocExecPages, and strdup: the
\* outcomes of a call that is not made are not enumerated
CallsAlloc(st) == st.entrypointBufferExec = NULL

CallsStrdup(st0, procName, alloc) ==
    LET init == InitEntrypoints(st0, alloc)
    IN  /\ init.rc = 0
        /\ LookupEntrypoint(init.st, procName) < 0
        /\ init.st.entrypointCount < GENERATED_ENTRYPOINT_MAX

\* the names of the live records
LiveNames == { entrypoints[i].procName : i \in { j \in Slots : j < entrypointCount } }

\* what a vendor's callback may answer for each name it can be asked about
Callbacks == [LiveNames -> Targets \cup {NULL}]

NoOp == [op |-> "none", procName |-> NULLSTR, ret |-> NULL, trace |-> <<>>]

\* the threads of the process that call into the module
Threads == {1, 2}

\* the locals of glvndGenerateEntrypoint and its callees when no call is in progress
Idle ==
    [pc |-> "idle", procName |-> NULLSTR, i |-> 0, entry |-> 0, index |-> 0,
     writeBuf |-> NULL, execBuf |-> NULL]

Init ==
    /\ isa \in ISAs
    /\ entrypoints = [i \in Slots |-> EmptyEntry]
    /\ entrypointBufferWrite = NULL
    /\ entrypointBufferExec = NULL
    /\ entrypointCount = 0
    /\ pages = <<>>
    /\ lastOp = NoOp
    /\ handed = [n \in ProcNames |-> NULL]
    /\ installed = [i \in Slots |-> NULL]
    /\ calls = [t \in Threads |-> Idle]
    /\ overlapped = FALSE

\* the static state after a call that left it as st
Becomes(st) ==
    /\ entrypoints' = st.entrypoints
    /\ entrypointBufferWrite' = st.entrypointBufferWrite
    /\ entrypointBufferExec' = st.entrypointBufferExec
    /\ entrypointCount' = st.entrypointCount
    /\ pages' = st.pages

Generate ==
    \E procName \in ProcNames,
       alloc \in IF CallsAlloc(Cur) THEN AllocOutcomes(pages) ELSE {NotCalled} :
        \E dupOk \in IF CallsStrdup(Cur, procName, alloc) THEN BOOLEAN ELSE {TRUE} :
        \E r \in {glvndGenerateEntrypoint(Cur, procName, alloc, dupOk)} :
            /\ Becomes(r.st)
            /\ lastOp' = [op |-> "generate", procName |-> procName, ret |-> r.ret,
                          trace |-> r.st.trace]
            /\ handed' = [handed EXCEPT ![procName] = IF @ = NULL THEN r.ret ELSE @]
            /\ UNCHANGED <<isa, installed, calls, overlapped>>

\* the first target each slot got from a callback, given the calls of one update
FirstInstalled(old, trace) ==
    [i \in Slots |->
        IF old[i] # NULL THEN old[i]
        ELSE LET hits == { k \in 1..Len(trace) : /\ trace[k].ev = "callback"
                                                 /\ trace[k].index = i
                                                 /\ trace[k].addr # NULL }
             IN  IF hits = {} THEN NULL
                 ELSE trace[CHOOSE k \in hits : \A j \in hits : k <= j].addr]

Update ==
    \E callback \in Callbacks :
        \E st \in {glvndUpdateEntrypoints(Cur, callback)} :
            /\ Becomes(st)
            /\ lastOp' = [op |-> "update", procName |-> NULLSTR, ret |-> NULL,
                          trace |-> st.trace]
            /\ installed' = FirstInstalled(installed, st.trace)
            /\ UNCHANGED <<isa, handed, calls, overlapped>>

Free ==
    LET st == glvndFreeEntrypoints(Cur)
    IN  /\ Becomes(st)
        /\ lastOp' = [op |-> "free", procName |-> NULLSTR, ret |-> NULL, trace |-> st.trace]
        /\ handed' = [n \in ProcNames |-> NULL]
        /\ installed' = [i \in Slots |-> NULL]
        /\ UNCHANGED <<isa, calls, overlapped>>

Next == Generate \/ Update \/ Free

Spec == Init /\ [][Next]_vars

-----------------------------------------------------------------------------
(* glvndGenerateEntrypoint statement by statement.  A call's position is the  *)
(* source line of the statement it executes next; each operator takes the     *)
(* static state st and the call's locals c and gives the state and locals     *)
(* after the statement, done and ret when the statement returns from the call. *)

Goto(st, c, pc) == [st |-> st, c |-> [c EXCEPT !.pc = pc], done |-> FALSE, ret |-> NULL]

\* the locals after a call has returned
Returned == [Idle EXCEPT !.pc = "returned"]

Return(st, ret) == [st |-> st, c |-> Returned, done |-> TRUE, ret |-> ret]

\* an access outside every object (an index past the table, a null string, a store
\* outside the mappings) or a failed assertion: what the process does from there on
\* is not followed
Undefined(st, c) == Goto(st, c, "undefined")

\* line 145 into 209: if (entrypointBufferExec == NULL); on return 0, i = 0 of line 149
Stmt209(st, c) ==
    IF st.entrypointBufferExec = NULL THEN Goto(st, c, "L211") ELSE Goto(st, c, "L149")

\* lines 211-214: AllocExecPages(..., &writeBuf, &execBuf); return -1 makes line 146
\* return NULL
Stmt211(st, c, alloc) ==
    IF alloc.rc # 0 THEN Return(AllocExecPages(st, alloc), NULL)
    ELSE Goto(AllocExecPages(st, alloc),
              [c EXCEPT !.writeBuf = alloc.write, !.execBuf = alloc.exec], "L215")

\* line 215: entrypointBufferWrite = writeBuf
Stmt215(st, c) == Goto([st EXCEPT !.entrypointBufferWrite = c.writeBuf], c, "L216")

\* line 216: entrypointBufferExec = execBuf; return 0; i = 0 of line 149
Stmt216(st, c) ==
    Goto([st EXCEPT !.entrypointBufferExec = c.execBuf],
         [c EXCEPT !.writeBuf = NULL, !.execBuf = NULL], "L149")

\* line 149: i < entrypointCount
Stmt149(st, c) ==
    IF c.i < st.entrypointCount THEN Goto(st, c, "L150")
    ELSE Goto(st, [c EXCEPT !.i = 0], "L156")

\* lines 150-153: if (strcmp(procName, entrypoints[i].procName) == 0) return ...; i++
Stmt150(st, c) ==
    IF c.i \notin Slots \/ st.entrypoints[c.i].procName = NULLSTR THEN Undefined(st, c)
    ELSE IF strcmp(c.procName, st.entrypoints[c.i].procName) = 0
    THEN Return(st, st.entrypoints[c.i].entrypointExec)
    ELSE Goto(st, [c EXCEPT !.i = @ + 1], "L149")

\* line 156: if (entrypointCount < GENERATED_ENTRYPOINT_MAX), else line 169
Stmt156(st, c) ==
    IF st.entrypointCount < GENERATED_ENTRYPOINT_MAX THEN Goto(st, c, "L157")
    ELSE Return(CapacityExhausted(st).st, CapacityExhausted(st).ret)

\* line 157: entry = &entrypoints[entrypointCount]
Stmt157(st, c) == Goto(st, [c EXCEPT !.entry = st.entrypointCount], "L158")

\* line 158: entry->procName = strdup(procName)
Stmt158(st, c, dupOk) ==
    IF c.entry \notin Slots THEN Undefined(st, c)
    ELSE Goto([st EXCEPT !.entrypoints[c.entry].procName = strdup(c.procName, dupOk)],
              c, "L159")

\* lines 159-161: if (entry->procName == NULL) return NULL
Stmt159(st, c) ==
    IF st.entrypoints[c.entry].procName = NULLSTR THEN Return(st, NULL)
    ELSE Goto(st, c, "L162")

\* line 162: entry->assigned = 0
Stmt162(st, c) == Goto([st EXCEPT !.entrypoints[c.entry].assigned = 0], c, "L163")

\* line 163: the call GenerateEntrypointFunc(entry, entrypointCount)
Stmt163(st, c) == Goto(st, [c EXCEPT !.index = st.entrypointCount], "L223")

\* line 223: entry->entrypointWrite = entrypointBufferWrite + index * STUB_ENTRY_SIZE
Stmt223(st, c) ==
    Goto([st EXCEPT !.entrypoints[c.entry].entrypointWrite =
                        PtrAdd(st.entrypointBufferWrite, c.index * STUB_ENTRY_SIZE)],
         c, "L224")

\* line 224: entry->entrypointExec = entrypointBufferExec + index * STUB_ENTRY_SIZE
Stmt224(st, c) ==
    Goto([st EXCEPT !.entrypoints[c.entry].entrypointExec =
                        PtrAdd(st.entrypointBufferExec, c.index * STUB_ENTRY_SIZE)],
         [c EXCEPT !.index = 0], "L230")

\* line 230: memcpy(entry->entrypointWrite, STUB_TEMPLATE, sizeof(STUB_TEMPLATE))
Stmt230(st, c) ==
    LET st1 == Store(st, st.entrypoints[c.entry].entrypointWrite, STUB_TEMPLATE)
    IN  IF st1.trace # <<>> THEN Undefined(st, c)
        ELSE Goto(st1, c, IF isa = "armv7" THEN "L234" ELSE "L238")

\* line 234 (ARMv7): entry->entrypointExec = (char *) entry->entrypointExec + 1
Stmt234(st, c) ==
    Goto([st EXCEPT !.entrypoints[c.entry].entrypointExec = PtrAdd(@, 1)], c, "L238")

\* mutant of Stmt238: the default dispatch function is not patched in
Stmt238SkipsPatch(st, c) == Goto(st, c, "L165")

\* line 238: SetDispatchFuncPointer(entry, DefaultDispatchFunc), the whole call
Stmt238(st, c) ==
    LET st1 == SetDispatchFuncPointer(st, c.entry, DefaultDispatchFunc)
    IN  IF \E k \in 1..Len(st1.trace) : st1.trace[k].ev \in {"fault", "assert"}
        THEN Undefined(st, c)
        ELSE Goto(st1, c, "L165")

\* mutant of Stmt165: the count is left as it is
Stmt165KeepsCount(st, c) == Goto(st, c, "L166")

\* line 165: entrypointCount++
Stmt165(st, c) == Goto([st EXCEPT !.entrypointCount = @ + 1], c, "L166")

\* line 166: return entry->entrypointExec
Stmt166(st, c) == Return(st, st.entrypoints[c.entry].entrypointExec)

\* the statement at the call's position
Statement(st, c, alloc, dupOk) ==
    CASE c.pc = "L211" -> Stmt211(st, c, alloc)
      [] c.pc = "L215" -> Stmt215(st, c)
      [] c.pc = "L216" -> Stmt216(st, c)
      [] c.pc = "L149" -> Stmt149(st, c)
      [] c.pc = "L150" -> Stmt150(st, c)
      [] c.pc = "L156" -> Stmt156(st, c)
      [] c.pc = "L157" -> Stmt157(st, c)
      [] c.pc = "L158" -> Stmt158(st, c, dupOk)
      [] c.pc = "L159" -> Stmt159(st, c)
      [] c.pc = "L162" -> Stmt162(st, c)
      [] c.pc = "L163" -> Stmt163(st, c)
      [] c.pc = "L223" -> Stmt223(st, c)
      [] c.pc = "L224" -> Stmt224(st, c)
      [] c.pc = "L230" -> Stmt230(st, c)
      [] c.pc = "L234" -> Stmt234(st, c)
      [] c.pc = "L238" -> Stmt238(st, c)
      [] c.pc = "L165" -> Stmt165(st, c)
      [] c.pc = "L166" -> Stmt166(st, c)

InProgress(t) == calls[t].pc \notin {"idle", "returned"}

\* no thread has run into undefined behaviour, after which nothing is followed
Defined == \A t \in Threads : calls[t].pc # "undefined"

\* the effect on the variables of a statement of thread t's call; a return hands
\* its value to the caller
Executes(t, procName, r) ==
    /\ Becomes(r.st)
    /\ calls' = [calls EXCEPT ![t] = r.c]
    /\ handed' = IF r.done
                 THEN [handed EXCEPT ![procName] = IF @ = NULL THEN r.ret ELSE @]
                 ELSE handed
    /\ UNCHANGED <<isa, lastOp, installed>>

\* thread t calls glvndGenerateEntrypoint(procName) and executes its first statement
Call(t) ==
    /\ Defined
    /\ ~InProgress(t)
    /\ \E procName \in ProcNames :
          Executes(t, procName, Stmt209(Cur, [Idle EXCEPT !.procName = procName]))
    /\ overlapped' = (overlapped \/ \E u \in Threads \ {t} : InProgress(u))

\* thread t executes the next statement of its call
Step(t) ==
    /\ Defined
    /\ InProgress(t)
    /\ \E alloc \in IF calls[t].pc = "L211" THEN AllocOutcomes(pages) ELSE {NotCalled},
          dupOk \in IF calls[t].pc = "L158" THEN BOOLEAN ELSE {TRUE} :
          Executes(t, calls[t].procName, Statement(Cur, calls[t], alloc, dupOk))
    /\ UNCHANGED overlapped

\* Two threads, each calling glvndGenerateEntrypoint once, with no lock held by the
\* callers: the statements of the two calls interleave in every order
NextThreads == \E t \in Threads : (calls[t].pc = "idle" /\ Call(t)) \/ Step(t)

SpecThreads == Init /\ [][NextThreads]_vars

\* The callers hold their lock across every call: one call is in progress at a time,
\* here always made by the same thread, and update and free run between two calls
Caller == CHOOSE t \in Threads : TRUE

UpdateCall ==
    /\ ~InProgress(Caller)
    /\ \E callback \in Callbacks : Becomes(glvndUpdateEntrypoints(Cur, callback))
    /\ UNCHANGED <<isa, lastOp, handed, installed, calls, overlapped>>

FreeCall ==
    /\ ~InProgress(Caller)
    /\ Becomes(glvndFreeEntrypoints(Cur))
    /\ handed' = [n \in ProcNames |-> NULL]
    /\ UNCHANGED <<isa, lastOp, installed, calls, overlapped>>

NextStatements == Call(Caller) \/ Step(Caller) \/ UpdateCall \/ FreeCall

SpecStatements == Init /\ [][NextStatements]_vars

-----------------------------------------------------------------------------
(* SetDispatchFuncPointer of the x86 build as a function of the stub's address and *)
(* the dispatch address, over addresses of the whole 32-bit space                  *)

\* buffers whose slots lie low, across 0x80000000, in the usual mmap area and at the
\* top of the address space
PatchBases ==
    { [write |-> <<0, 0, 2, 0>>,         exec |-> <<0, 0, 1, 0>>],          \* 0x00010000
      [write |-> <<240, 255, 254, 127>>, exec |-> <<240, 255, 255, 127>>],  \* 0x7FFFFFF0
      [write |-> <<0, 0, 112, 183>>,     exec |-> <<0, 0, 113, 183>>],      \* 0xB7710000
      [write |-> <<192, 255, 254, 255>>, exec |-> <<192, 255, 255, 255>>] } \* 0xFFFFFFC0

\* dispatch addresses at the ends and the sign boundary of the address space
PatchTargets ==
    { <<b1, b2, b3, b4>> : b1 \in {0, 245, 255}, b2 \in {0, 255}, b3 \in {0, 255},
                           b4 \in {0, 127, 128, 255} }

\* the names generated before a patch, in order
PatchNames == << <<97>>, <<98>>, <<97, 98>>, <<98, 97>> >>

\* the static state after generate was called for the first k names, the buffer
\* allocated as out
RECURSIVE Issued(_, _)
Issued(out, k) ==
    IF k = 0
    THEN [entrypoints           |-> [i \in Slots |-> EmptyEntry],
          entrypointBufferWrite |-> NULL,
          entrypointBufferExec  |-> NULL,
          entrypointCount       |-> 0,
          pages                 |-> <<>>,
          trace                 |-> <<>>]
    ELSE CHOOSE st \in
             { Static(glvndGenerateEntrypoint(prev, PatchNames[k],
                                              IF k = 1 THEN out ELSE NotCalled, TRUE).st) :
                   prev \in {Issued(out, k - 1)} } : TRUE

InitPatch ==
    /\ isa = "x86"
    /\ \E base \in PatchBases, k \in 1..GENERATED_ENTRYPOINT_MAX :
          \E st \in {Issued([rc |-> 0, write |-> base.write, exec |-> base.exec], k)} :
              /\ entrypoints = st.entrypoints
              /\ entrypointBufferWrite = st.entrypointBufferWrite
              /\ entrypointBufferExec = st.entrypointBufferExec
              /\ entrypointCount = st.entrypointCount
              /\ pages = st.pages
              /\ handed = [n \in ProcNames |->
                              IF \E i \in 0..(k - 1) : st.entrypoints[i].procName = n
                              THEN st.entrypoints[CHOOSE i \in 0..(k - 1) :
                                       st.entrypoints[i].procName = n].entrypointExec
                              ELSE NULL]
    /\ lastOp = NoOp
    /\ installed = [i \in Slots |-> NULL]
    /\ calls = [t \in Threads |-> Idle]
    /\ overlapped = FALSE

\* SetDispatchFuncPointer(&entrypoints[entrypointCount - 1], target)
Patch ==
    \E target \in PatchTargets :
        LET i  == entrypointCount - 1
            st == SetDispatchFuncPointer(Cur, i, target)
        IN  /\ Becomes(st)
            /\ lastOp' = [op |-> "patch", procName |-> entrypoints[i].procName,
                          ret |-> target, trace |-> st.trace]
            /\ UNCHANGED <<isa, handed, installed, calls, overlapped>>

NextPatch == Patch

SpecPatch == InitPatch /\ [][NextPatch]_vars

-----------------------------------------------------------------------------
(* Properties of the serialised module *)

Live == { i \in Slots : i < entrypointCount }

\* the events of the last call, by kind
Events(kind) == { k \in 1..Len(lastOp.trace) : lastOp.trace[k].ev = kind }

\* C1 as stated: any two calls generate(n) with no free between them return the same
\* value, whatever failures occur; here for two calls that follow each other.
C1_AnyTwoCallsAgree ==
    [][(/\ lastOp.op = "generate"
        /\ lastOp'.op = "generate"
        /\ lastOp'.procName = lastOp.procName) => lastOp'.ret = lastOp.ret]_vars

\* C1 amended: once a call generate(n) has returned a non-null value, every
\* generate(n) up to the next free returns that same value; a call that fails (page
\* allocation, name copy, capacity) returns null and a later call may still succeed.
C1_DeduplicationAfterSuccess ==
    (lastOp.op = "generate" /\ handed[lastOp.procName] # NULL)
        => lastOp.ret = handed[lastOp.procName]

\* a repeated generate(n) answered from the table while other names are live
C1_Witness ==
    /\ lastOp.op = "generate"
    /\ lastOp.trace = <<>>
    /\ lastOp.ret # NULL
    /\ lastOp.ret = handed[lastOp.procName]
    /\ entrypointCount = GENERATED_ENTRYPOINT_MAX

\* C2 stability: once generate(n) has returned a non-null p, up to the next free the
\* live record of n keeps entrypointExec = p, p stays the address of a mapped stub, and
\* every later generate(n) returns p; no generate of another name and no update
\* changes it.
C2_Stability ==
    /\ \A n \in ProcNames :
          handed[n] # NULL =>
              /\ \E i \in Live : /\ entrypoints[i].procName = n
                                 /\ entrypoints[i].entrypointExec = handed[n]
              /\ StubTarget(pages, handed[n]) # <<>>
    /\ (lastOp.op = "generate" /\ lastOp.ret # NULL)
          => lastOp.ret = handed[lastOp.procName]

\* an update has just patched a stub while every slot is handed out
C2_Witness ==
    /\ lastOp.op = "update"
    /\ \E k \in Events("callback") : lastOp.trace[k].addr # NULL
    /\ Cardinality({ n \in ProcNames : handed[n] # NULL }) = GENERATED_ENTRYPOINT_MAX

\* C3 uniqueness: no two live records hold the same name, and generate of two
\* distinct names never returns the same non-null pointer between two frees.
C3_UniqueNames ==
    /\ \A i, j \in Live :
          i # j => strcmp(entrypoints[i].procName, entrypoints[j].procName) # 0
    /\ \A n, m \in ProcNames :
          (n # m /\ handed[n] # NULL /\ handed[m] # NULL) => handed[n] # handed[m]

\* generate("a"), generate("ab"), then generate("a") again: a name and its prefix
C3_Witness ==
    /\ lastOp.op = "generate"
    /\ lastOp.trace = <<>>
    /\ lastOp.procName = <<97>>
    /\ handed[<<97>>] # NULL
    /\ handed[<<97, 98>>] # NULL
    /\ handed[<<97>>] # handed[<<97, 98>>]

\* C4 capacity bound: the count never exceeds GENERATED_ENTRYPOINT_MAX; when that many
\* names are live, generate of a further name returns null and changes nothing, so
\* every earlier name keeps its record and its pointer.
C4_CapacityBound ==
    /\ [](entrypointCount <= GENERATED_ENTRYPOINT_MAX)
    /\ [][(/\ entrypointCount = GENERATED_ENTRYPOINT_MAX
           /\ lastOp'.op = "generate"
           /\ lastOp'.procName \notin LiveNames)
          => /\ lastOp'.ret = NULL
             /\ lastOp'.trace = <<>>
             /\ UNCHANGED <<entrypoints, entrypointBufferWrite, entrypointBufferExec,
                            entrypointCount, pages, handed, installed>>]_vars

\* a generate of a name that is not live has just been refused by a full table
C4_Witness ==
    /\ lastOp.op = "generate"
    /\ lastOp.ret = NULL
    /\ lastOp.trace = <<>>
    /\ entrypointCount = GENERATED_ENTRYPOINT_MAX
    /\ lastOp.procName \notin LiveNames
    /\ \A i \in Live : handed[entrypoints[i].procName] = entrypoints[i].entrypointExec

\* C5 update scope: update neither invokes the callback for a record whose assigned
\* flag is set nor changes that record or its dispatch target, whatever the callback
\* would return; the target of the first successful resolution stays in place up to
\* the next free.
C5_UpdateScope ==
    /\ [](\A i \in Live :
             installed[i] # NULL =>
                 /\ entrypoints[i].assigned = 1
                 /\ StubTarget(pages, entrypoints[i].entrypointExec) = installed[i])
    /\ [][lastOp'.op = "update" =>
             /\ \A k \in 1..Len(lastOp'.trace) :
                   lastOp'.trace[k].ev = "callback"
                       => entrypoints[lastOp'.trace[k].index].assigned = 0
             /\ \A i \in Live :
                   entrypoints[i].assigned = 1 =>
                       /\ entrypoints'[i] = entrypoints[i]
                       /\ StubTarget(pages', entrypoints[i].entrypointExec)
                              = StubTarget(pages, entrypoints[i].entrypointExec)]_vars

\* an update has resolved one record to an address while another record, assigned
\* before to a different address, was not asked about and kept its target
C5_Witness ==
    /\ lastOp.op = "update"
    /\ \E i, j \in Live :
          /\ entrypoints[i].assigned = 1
          /\ \A k \in Events("callback") : lastOp.trace[k].index # i
          /\ \E k \in Events("callback") :
                /\ lastOp.trace[k].index = j
                /\ lastOp.trace[k].addr # NULL
                /\ lastOp.trace[k].addr # installed[i]
          /\ StubTarget(pages, entrypoints[i].entrypointExec) = installed[i]

\* C6 patch effect: when update's callback returns a non-null target T for an
\* unassigned live record named n, then after update the stub of n dispatches to
\* exactly T, the record is assigned, and generate(n) returns the pointer it returned
\* before the update.
C6_PatchEffect ==
    lastOp.op = "update" =>
        \A k \in Events("callback") :
            LET e == lastOp.trace[k]
            IN  e.addr # NULL =>
                    /\ entrypoints[e.index].procName = e.procName
                    /\ entrypoints[e.index].assigned = 1
                    /\ StubTarget(pages, entrypoints[e.index].entrypointExec) = e.addr
                    /\ handed[e.procName] # NULL
                    /\ glvndGenerateEntrypoint(Cur, e.procName, NotCalled, TRUE).ret
                           = handed[e.procName]
                    /\ StubTarget(pages, handed[e.procName]) = e.addr

\* an update has just installed a target in the last slot of a full table
C6_Witness ==
    /\ lastOp.op = "update"
    /\ entrypointCount = GENERATED_ENTRYPOINT_MAX
    /\ \E k \in Events("callback") :
          /\ lastOp.trace[k].addr \in Targets
          /\ lastOp.trace[k].index = GENERATED_ENTRYPOINT_MAX - 1
          /\ StubTarget(pages, handed[lastOp.trace[k].procName]) = lastOp.trace[k].addr

\* C7 default behaviour: a live record that is not assigned has DefaultDispatchFunc,
\* which returns NULL, as the target of its stub; a record for which no callback has
\* returned non-null stays unassigned, and every update asks about each such record.
C7_DefaultBehaviour ==
    /\ CallDefaultDispatchFunc = NULL
    /\ \A i \in Live :
          /\ entrypoints[i].assigned = 0
                => StubTarget(pages, entrypoints[i].entrypointExec) = DefaultDispatchFunc
          /\ installed[i] = NULL => entrypoints[i].assigned = 0
    /\ lastOp.op = "update" =>
          \A i \in Live :
              entrypoints[i].assigned = 0 =>
                  \E k \in Events("callback") :
                      /\ lastOp.trace[k].index = i
                      /\ lastOp.trace[k].procName = entrypoints[i].procName
                      /\ lastOp.trace[k].addr = NULL

\* an update whose callback answered null for one record and resolved another
C7_Witness ==
    /\ lastOp.op = "update"
    /\ \E i, j \in Live :
          /\ entrypoints[i].assigned = 0
          /\ entrypoints[j].assigned = 1
          /\ \E k \in Events("callback") :
                lastOp.trace[k].index = i /\ lastOp.trace[k].addr = NULL
          /\ StubTarget(pages, entrypoints[i].entrypointExec) = DefaultDispatchFunc

\* C8 idempotent teardown: from any reachable state, free followed at once by free
\* leaves the state a single free leaves, and the second free, like any free on an
\* uninitialised module, calls neither AllocExecPages nor FreeExecPages (nor free)
\* and changes nothing.
C8_IdempotentTeardown ==
    LET once  == glvndFreeEntrypoints(Cur)
        twice == glvndFreeEntrypoints(Static(once))
    IN  /\ twice = Static(once)
        /\ (entrypointBufferExec = NULL /\ entrypointCount = 0)
               => glvndFreeEntrypoints(Cur) = Cur

\* a free that found nothing to release has just run
C8_Witness ==
    /\ lastOp.op = "free"
    /\ lastOp.trace = <<>>
    /\ entrypointBufferExec = NULL
    /\ pages = <<>>

\* the one successful outcome of AllocExecPages
SuccessfulAlloc(pg) == CHOOSE o \in AllocOutcomes(pg) : o.rc = 0

\* the values returned by generate for each name of a sequence in turn, every
\* allocation and every copy succeeding
RECURSIVE GenerateEach(_, _)
GenerateEach(st, names) ==
    IF names = <<>> THEN <<>>
    ELSE LET r == glvndGenerateEntrypoint(Static(st), Head(names),
                      IF CallsAlloc(st) THEN SuccessfulAlloc(st.pages) ELSE NotCalled, TRUE)
         IN  <<r.ret>> \o GenerateEach(r.st, Tail(names))

\* the sequences of GENERATED_ENTRYPOINT_MAX distinct names
DistinctNames ==
    { s \in [1..GENERATED_ENTRYPOINT_MAX -> ProcNames] :
          \A i, j \in 1..GENERATED_ENTRYPOINT_MAX : i # j => s[i] # s[j] }

\* C9 after free the module is in its initial state: the count is 0, every record
\* has a null name, null pointers and assigned = 0, the buffer pointers are null and
\* the mapping is released; so GENERATED_ENTRYPOINT_MAX further distinct names can be
\* generated, also when the table was full before.
C9_FreeRestoresInitialState ==
    lastOp.op = "free" =>
        /\ entrypointCount = 0
        /\ entrypoints = [i \in Slots |-> EmptyEntry]
        /\ entrypointBufferWrite = NULL
        /\ entrypointBufferExec = NULL
        /\ pages = <<>>
        /\ \A s \in DistinctNames :
              LET rets == GenerateEach(Cur, s)
              IN  \A i, j \in 1..GENERATED_ENTRYPOINT_MAX :
                      /\ rets[i] # NULL
                      /\ i # j => rets[i] # rets[j]

\* a free has just released a full table, assigned records included, and its mapping
C9_Witness ==
    /\ lastOp.op = "free"
    /\ Cardinality(Events("free")) = GENERATED_ENTRYPOINT_MAX
    /\ Cardinality(Events("FreeExecPages")) = 1
    /\ entrypointCount = 0

StrdupFailed(op) == \E k \in 1..Len(op.trace) : op.trace[k].ev = "strdup" /\ ~op.trace[k].ok

\* C10 name copy failure: when generate(n) is called for a name that is not live and
\* the copy of the name fails, generate returns null, the count and all records are
\* unchanged and no record for n becomes live; a later generate(n) whose copy succeeds
\* gets the slot whose index is the unchanged count.
C10_NameCopyFailure ==
    /\ [][(lastOp'.op = "generate" /\ StrdupFailed(lastOp')) =>
             /\ lastOp'.ret = NULL
             /\ entrypointCount' = entrypointCount
             /\ entrypoints' = entrypoints
             /\ handed' = handed
             /\ lastOp'.procName \notin LiveNames
             /\ lastOp'.procName \notin LiveNames']_vars
    /\ []((lastOp.op = "generate" /\ StrdupFailed(lastOp)) =>
             LET r == glvndGenerateEntrypoint(Cur, lastOp.procName, NotCalled, TRUE)
             IN  /\ r.ret # NULL
                 /\ r.st.entrypointCount = entrypointCount + 1
                 /\ r.st.entrypoints[entrypointCount].procName = lastOp.procName
                 /\ r.st.entrypoints[entrypointCount].entrypointExec = r.ret
                 /\ r.st.entrypoints[entrypointCount].entrypointWrite
                        = PtrAdd(entrypointBufferWrite, entrypointCount * STUB_ENTRY_SIZE))

\* the copy of a new name has just failed while another record is live
C10_Witness ==
    /\ lastOp.op = "generate"
    /\ StrdupFailed(lastOp)
    /\ lastOp.ret = NULL
    /\ entrypointCount >= 1
    /\ lastOp.procName \notin LiveNames

\* the call made AllocExecPages and it failed
AllocFailed(op) ==
    \E k \in 1..Len(op.trace) : op.trace[k].ev = "AllocExecPages" /\ op.trace[k].rc # 0

\* C11 as stated: the generate that follows a failed allocation returns a non-null
\* stub whenever its own allocation succeeds.
C11_RetryReturnsStub ==
    [][(/\ lastOp.op = "generate"
        /\ AllocFailed(lastOp)
        /\ lastOp'.op = "generate"
        /\ ~AllocFailed(lastOp')) => lastOp'.ret # NULL]_vars

\* C11 amended: a generate called while the slab is uninitialised calls
\* AllocExecPages first; when that fails generate returns null, makes no other call,
\* and leaves the slab uninitialised (both base pointers null) and the count, the
\* records and the mappings unchanged, so the next generate calls AllocExecPages
\* again; when the allocation succeeds the slab is initialised, and generate returns
\* a non-null stub provided the copy of the name succeeds too.
C11_SlabInitFailure ==
    [][(lastOp'.op = "generate" /\ entrypointBufferExec = NULL) =>
          /\ Len(lastOp'.trace) >= 1
          /\ lastOp'.trace[1].ev = "AllocExecPages"
          /\ AllocFailed(lastOp') =>
                /\ lastOp'.ret = NULL
                /\ Len(lastOp'.trace) = 1
                /\ entrypointBufferWrite' = NULL
                /\ entrypointBufferExec' = NULL
                /\ entrypointCount' = entrypointCount
                /\ entrypoints' = entrypoints
                /\ pages' = pages
          /\ ~AllocFailed(lastOp') =>
                /\ entrypointBufferWrite' # NULL
                /\ entrypointBufferExec' # NULL
                /\ ~StrdupFailed(lastOp') => lastOp'.ret # NULL]_vars

\* a generate has just been refused because AllocExecPages failed
C11_Witness ==
    /\ lastOp.op = "generate"
    /\ AllocFailed(lastOp)
    /\ lastOp.ret = NULL
    /\ entrypointBufferWrite = NULL
    /\ entrypointBufferExec = NULL
    /\ entrypointCount = 0

\* what GenerateEntrypointFunc adds to the executable address of a slot: 1 on the
\* Thumb build, to enter the stub in Thumb state
ThumbBit == IF isa = "armv7" THEN 1 ELSE 0

\* a < b as addresses (unsigned)
PtrLess(a, b) ==
    \E k \in 1..Len(a) : a[k] < b[k] /\ \A j \in (k + 1)..Len(a) : a[j] = b[j]

\* the names generate has answered with a stub since the last free
HandedNames == { n \in ProcNames : handed[n] # NULL }

\* a generate that registered a new name
Inserted(op) ==
    /\ op.op = "generate"
    /\ \E k \in 1..Len(op.trace) : op.trace[k].ev = "strdup" /\ op.trace[k].ok

\* C12 slot-address invariant: for every i < count, the record's writable pointer is
\* write_base + i * STUB_ENTRY_SIZE and its executable pointer is exec_base + i *
\* STUB_ENTRY_SIZE (plus 1 on the Thumb build), against the current bases; the k-th
\* new name generated since the last free gets slot k - 1, and stub addresses are
\* strictly increasing in issue order.
C12_SlotAddress ==
    /\ [](\A i \in Live :
             /\ entrypoints[i].entrypointWrite
                    = PtrAdd(entrypointBufferWrite, i * STUB_ENTRY_SIZE)
             /\ entrypoints[i].entrypointExec
                    = PtrAdd(entrypointBufferExec, i * STUB_ENTRY_SIZE + ThumbBit))
    /\ [](/\ Cardinality(HandedNames) = entrypointCount
          /\ \A i, j \in Live :
                i < j => PtrLess(entrypoints[i].entrypointExec, entrypoints[j].entrypointExec))
    /\ [][Inserted(lastOp') =>
             LET k == Cardinality(HandedNames) + 1
             IN  /\ lastOp'.procName \notin HandedNames
                 /\ entrypointCount' = k
                 /\ entrypoints'[k - 1].procName = lastOp'.procName
                 /\ entrypoints'[k - 1].entrypointExec = lastOp'.ret
                 /\ lastOp'.ret
                        = PtrAdd(entrypointBufferExec', (k - 1) * STUB_ENTRY_SIZE + ThumbBit)
                 /\ \A i \in Live : PtrLess(entrypoints[i].entrypointExec, lastOp'.ret)]_vars

\* a generate has just issued the last slot of the table to a new name
C12_Witness ==
    /\ Inserted(lastOp)
    /\ entrypointCount = GENERATED_ENTRYPOINT_MAX
    /\ lastOp.ret = PtrAdd(entrypointBufferExec,
                           (GENERATED_ENTRYPOINT_MAX - 1) * STUB_ENTRY_SIZE + ThumbBit)
    /\ lastOp.ret = handed[lastOp.procName]

\* the positions in a call's trace of the callback invocations for record i
CallbacksFor(trace, i) ==
    { k \in 1..Len(trace) : trace[k].ev = "callback" /\ trace[k].index = i }

\* C13 callback order: within one update the callback is invoked exactly once, with
\* the record's name, for each live record that is unassigned when the scan reaches
\* it and not at all for any other record, and the invocations occur in strictly
\* increasing record index.
C13_CallbackOrder ==
    [][lastOp'.op = "update" =>
          /\ \A i \in Slots :
                Cardinality(CallbacksFor(lastOp'.trace, i))
                    = IF i \in Live /\ entrypoints[i].assigned = 0 THEN 1 ELSE 0
          /\ \A k \in 1..Len(lastOp'.trace) :
                lastOp'.trace[k].ev = "callback" =>
                    /\ lastOp'.trace[k].index \in Live
                    /\ lastOp'.trace[k].procName
                           = entrypoints[lastOp'.trace[k].index].procName
                    /\ \A j \in 1..(k - 1) :
                          lastOp'.trace[j].ev = "callback"
                              => lastOp'.trace[j].index < lastOp'.trace[k].index]_vars

\* an update of a full table has just asked about two records in index order,
\* resolving the first and getting null for the second
C13_Witness ==
    /\ lastOp.op = "update"
    /\ entrypointCount = GENERATED_ENTRYPOINT_MAX
    /\ \E k1, k2 \in Events("callback") :
          /\ k1 < k2
          /\ lastOp.trace[k1].index < lastOp.trace[k2].index
          /\ lastOp.trace[k1].addr # NULL
          /\ lastOp.trace[k2].addr = NULL

\* C15 lookup precedes the capacity check: when the table is full, generate(n) for a
\* name n that is live returns the non-null entrypointExec of its record, makes no
\* call out and changes no state; at capacity generate returns null for exactly the
\* names that are not live.
C15_LookupBeforeCapacity ==
    [][(entrypointCount = GENERATED_ENTRYPOINT_MAX /\ lastOp'.op = "generate") =>
          /\ lastOp'.ret = NULL <=> lastOp'.procName \notin LiveNames
          /\ lastOp'.procName \in LiveNames =>
                /\ \E i \in Live : /\ entrypoints[i].procName = lastOp'.procName
                                   /\ entrypoints[i].entrypointExec = lastOp'.ret
                /\ lastOp'.ret # NULL
                /\ lastOp'.trace = <<>>
                /\ UNCHANGED <<entrypoints, entrypointBufferWrite, entrypointBufferExec,
                               entrypointCount, pages, handed, installed>>]_vars

\* a generate of the name in the last slot has just been answered by a full table
C15_Witness ==
    /\ lastOp.op = "generate"
    /\ entrypointCount = GENERATED_ENTRYPOINT_MAX
    /\ lastOp.trace = <<>>
    /\ lastOp.procName = entrypoints[GENERATED_ENTRYPOINT_MAX - 1].procName
    /\ lastOp.ret = entrypoints[GENERATED_ENTRYPOINT_MAX - 1].entrypointExec
    /\ lastOp.ret # NULL

\* event k of the last call is a cache flush over exactly the 12 bytes of the stub of
\* record i, from its even address up
FlushOf(k, i) ==
    /\ k \in 1..Len(lastOp.trace)
    /\ lastOp.trace[k].ev = "clear_cache"
    /\ lastOp.trace[k].begin = PtrAdd(entrypointBufferExec, i * STUB_ENTRY_SIZE)
    /\ lastOp.trace[k].begin = SubBytes(entrypoints[i].entrypointExec, ToBytes(1, PtrLen))
    /\ lastOp.trace[k].begin[1] % 2 = 0
    /\ lastOp.trace[k].end = PtrAdd(lastOp.trace[k].begin, 12)

\* C17 ARMv7 Thumb build: every live record's entrypointExec has bit 0 set, so the
\* assertion of SetDispatchFuncPointer never fails (the bases being even); its
\* entrypointWrite is the unadjusted, even address of the slot; and every patch, the
\* default one of generate and each one of update, is followed by a cache flush over
\* exactly [entrypointExec - 1, entrypointExec - 1 + 12).
C17_ThumbBitAndFlush ==
    isa = "armv7" =>
        /\ \A i \in Live :
              /\ entrypoints[i].entrypointExec[1] % 2 = 1
              /\ entrypoints[i].entrypointWrite[1] % 2 = 0
              /\ entrypoints[i].entrypointWrite
                     = PtrAdd(entrypointBufferWrite, i * STUB_ENTRY_SIZE)
        /\ Events("assert") = {}
        /\ Inserted(lastOp) =>
              /\ Cardinality(Events("clear_cache")) = 1
              /\ FlushOf(Len(lastOp.trace), entrypointCount - 1)
        /\ lastOp.op = "update" =>
              /\ \A k \in Events("callback") :
                    lastOp.trace[k].addr # NULL => FlushOf(k + 1, lastOp.trace[k].index)
              /\ Cardinality(Events("clear_cache"))
                     = Cardinality({ k \in Events("callback") : lastOp.trace[k].addr # NULL })
        /\ (lastOp.op = "generate" /\ ~Inserted(lastOp)) => Events("clear_cache") = {}
        /\ lastOp.op = "free" => Events("clear_cache") = {}

\* on the Thumb build an update has just patched the stub in the last slot and
\* flushed it
C17_Witness ==
    /\ isa = "armv7"
    /\ lastOp.op = "update"
    /\ \E k \in Events("callback") :
          /\ lastOp.trace[k].addr # NULL
          /\ lastOp.trace[k].index = GENERATED_ENTRYPOINT_MAX - 1
          /\ FlushOf(k + 1, GENERATED_ENTRYPOINT_MAX - 1)

\* C18 slab/registry coupling: the two base pointers are both null or both non-null,
\* and a positive count implies an initialised slab; the state "slab initialised,
\* count = 0" is left by a generate whose name copy fails on an empty table, and a
\* free called in that state releases the slab and nulls both pointers.
C18_SlabRegistryCoupling ==
    /\ [](/\ entrypointBufferWrite = NULL <=> entrypointBufferExec = NULL
          /\ entrypointCount > 0 => entrypointBufferExec # NULL)
    /\ [][(/\ lastOp'.op = "generate"
           /\ StrdupFailed(lastOp')
           /\ entrypointCount = 0) =>
             /\ entrypointBufferWrite' # NULL
             /\ entrypointBufferExec' # NULL
             /\ entrypointCount' = 0]_vars
    /\ [][(/\ lastOp'.op = "free"
           /\ entrypointBufferExec # NULL
           /\ entrypointCount = 0) =>
             /\ \E k \in 1..Len(lastOp'.trace) :
                   /\ lastOp'.trace[k].ev = "FreeExecPages"
                   /\ lastOp'.trace[k].write = entrypointBufferWrite
                   /\ lastOp'.trace[k].exec = entrypointBufferExec
             /\ entrypointBufferWrite' = NULL
             /\ entrypointBufferExec' = NULL
             /\ pages' = <<>>]_vars

\* a free has just released the slab of a table that held no record
C18_Witness ==
    /\ lastOp.op = "free"
    /\ Events("free") = {}
    /\ Cardinality(Events("FreeExecPages")) = 1
    /\ entrypointBufferWrite = NULL
    /\ entrypointBufferExec = NULL
    /\ pages = <<>>

\* the mapping the static base pointers designate
SlabKey == [write |-> entrypointBufferWrite, exec |-> entrypointBufferExec]

\* C19 allocation balance: AllocExecPages is called only while the slab is
\* uninitialised and FreeExecPages only while it is initialised, with the base
\* pointers of the one live mapping, that of the latest successful allocation; the
\* two alternate, so no mapping is released twice, no second mapping is ever live,
\* and after any free no mapping is outstanding.
C19_AllocationBalance ==
    /\ [](IF entrypointBufferExec = NULL THEN pages = <<>>
                                         ELSE DOMAIN pages = {SlabKey})
    /\ [][\A k \in 1..Len(lastOp'.trace) :
             /\ lastOp'.trace[k].ev = "AllocExecPages" =>
                   /\ lastOp'.op = "generate"
                   /\ k = 1
                   /\ entrypointBufferExec = NULL
                   /\ pages = <<>>
                   /\ lastOp'.trace[k].rc = 0 => DOMAIN pages' = {SlabKey'}
                   /\ lastOp'.trace[k].rc # 0 => pages' = <<>>
             /\ lastOp'.trace[k].ev = "FreeExecPages" =>
                   /\ lastOp'.op = "free"
                   /\ k = Len(lastOp'.trace)
                   /\ entrypointBufferExec # NULL
                   /\ lastOp'.trace[k].mapped
                   /\ lastOp'.trace[k].write = entrypointBufferWrite
                   /\ lastOp'.trace[k].exec = entrypointBufferExec
                   /\ DOMAIN pages = {SlabKey}]_vars
    /\ [](lastOp.op = "free" => pages = <<>> /\ entrypointBufferExec = NULL)

\* a free has just released the mapping of a table with one live record
C19_Witness ==
    /\ lastOp.op = "free"
    /\ Cardinality(Events("free")) = 1
    /\ \E k \in Events("FreeExecPages") :
          /\ lastOp.trace[k].mapped
          /\ lastOp.trace[k].exec # NULL
    /\ pages = <<>>

\* the first sizeof(STUB_TEMPLATE) bytes of the stub of record i
StubCode(i) ==
    LET b == SlotBytes(pages, SubBytes(entrypoints[i].entrypointExec, ToBytes(ThumbBit, PtrLen)))
    IN  IF b = <<>> THEN <<>> ELSE SubSeq(b, 1, Len(STUB_TEMPLATE))

\* the call of thread t is in the insert block, its record not yet counted
Emitting(t) ==
    calls[t].pc \in {"L158", "L159", "L162", "L163", "L223", "L224", "L230", "L234", "L238", "L165"}

\* C14 emit before publish: in a generate for a new name the template is copied and
\* DefaultDispatchFunc patched in before the count is incremented and before the
\* pointer is returned; so in every state between two statements of a serialised
\* run, a live record's stub is a complete jump to DefaultDispatchFunc or to a target
\* a callback supplied, never the template with its placeholder.
C14_EmitBeforePublish ==
    /\ [](\A i \in Live :
             /\ StubTarget(pages, entrypoints[i].entrypointExec)
                    \in {DefaultDispatchFunc} \cup Targets
             /\ entrypoints[i].assigned = 0
                    => StubTarget(pages, entrypoints[i].entrypointExec) = DefaultDispatchFunc
             /\ StubCode(i) # STUB_TEMPLATE)
    /\ [](\A t \in Threads : Emitting(t) => calls[t].entry = entrypointCount)
    /\ [][entrypointCount' = entrypointCount + 1 =>
             /\ entrypoints' = entrypoints
             /\ pages' = pages
             /\ StubTarget(pages, entrypoints[entrypointCount].entrypointExec)
                    = DefaultDispatchFunc]_vars
    /\ [][\A t \in Threads :
             (calls[t].pc = "L166" /\ calls'[t].pc = "returned") =>
                 /\ calls[t].entry \in Live
                 /\ handed'[calls[t].procName] = entrypoints[calls[t].entry].entrypointExec
                 /\ StubTarget(pages, handed'[calls[t].procName]) = DefaultDispatchFunc]_vars

\* a call has copied the template into its slot and not yet patched it: the slot
\* holds the placeholder and is not live, while a live record dispatches to a
\* callback's target
C14_Witness ==
    /\ calls[Caller].pc = "L238"
    /\ calls[Caller].entry = entrypointCount
    /\ StubCode(entrypointCount) = STUB_TEMPLATE
    /\ \E i \in Live :
          /\ entrypoints[i].assigned = 1
          /\ StubTarget(pages, entrypoints[i].entrypointExec) \in Targets

\* the invariants of the registry of a serialised run: the count is within the table,
\* live names are pairwise different, different names were handed different stubs,
\* every name handed a stub has a live record holding that stub, and at most one
\* mapping is live
RegistryIntact ==
    /\ entrypointCount <= GENERATED_ENTRYPOINT_MAX
    /\ \A i, j \in Live :
          i # j => entrypoints[i].procName # entrypoints[j].procName
    /\ \A n, m \in HandedNames : n # m => handed[n] # handed[m]
    /\ \A n \in HandedNames :
          \E i \in Live : /\ entrypoints[i].procName = n
                           /\ entrypoints[i].entrypointExec = handed[n]
    /\ Cardinality(DOMAIN pages) <= 1

\* C20 no internal synchronisation: the registry invariants hold as long as no two
\* calls have been in progress at the same time; the module takes no lock, so two
\* generate calls for distinct new names whose statements interleave can read the
\* same count and take the same slot, and the invariants hold only under the
\* callers' mutual exclusion.
C20_InvariantsNeedMutualExclusion == ~overlapped => RegistryIntact

\* two interleaved calls for distinct new names have returned: both names were
\* handed the same stub and the registration of one of them is lost
C20_Witness ==
    /\ overlapped
    /\ \A t \in Threads : calls[t].pc = "returned"
    /\ \E n, m \in HandedNames :
          /\ n # m
          /\ handed[n] = handed[m]
          /\ n \notin LiveNames
          /\ m \in LiveNames

\* the low and the high half of a 32-bit word
LoHalf(w) == w[1] + 256 * w[2]

HiHalf(w) == w[3] + 256 * w[4]

\* (target - exec - 5) mod 2^32, in 16-bit halves with a borrow
Rel32(target, exec) ==
    LET lo == LoHalf(target) - LoHalf(exec) - 5
        hi == HiHalf(target) - HiHalf(exec) - (IF lo < 0 THEN 1 ELSE 0)
    IN  ToBytes((lo + 131072) % 65536, 2) \o ToBytes((hi + 131072) % 65536, 2)

\* where jmp rel32 at address exec goes: (exec + 5 + rel32) mod 2^32, in 16-bit
\* halves with a carry
JmpDestination(exec, rel32) ==
    LET lo == LoHalf(exec) + 5 + LoHalf(rel32)
        hi == HiHalf(exec) + HiHalf(rel32) + lo \div 65536
    IN  ToBytes(lo % 65536, 2) \o ToBytes(hi % 65536, 2)

\* C16 x86 patch round trip: for every stub address and every target the stored
\* field is rel32 = (target - entrypointExec - 5) mod 2^32 and the jump destination
\* (entrypointExec + 5 + rel32) mod 2^32 is the target, also when the target lies
\* below the stub or the difference wraps; the patch writes only the 4 bytes at
\* offsets 1..4 of the slot.
C16_PatchRoundTrip ==
    [][lastOp'.op = "patch" =>
          LET i      == entrypointCount - 1
              exec   == entrypoints[i].entrypointExec
              target == lastOp'.ret
              d      == PtrDiff(entrypoints[i].entrypointWrite, entrypointBufferWrite)
              before == pages[SlabKey]
              after  == pages'[SlabKey]
              rel32  == SubSeq(after, d + 2, d + 5)
          IN  /\ lastOp'.trace = <<>>
              /\ d = i * STUB_ENTRY_SIZE
              /\ rel32 = Rel32(target, exec)
              /\ JmpDestination(exec, rel32) = target
              /\ StubTarget(pages', exec) = target
              /\ DOMAIN pages' = DOMAIN pages
              /\ SubSeq(after, 1, d + 1) = SubSeq(before, 1, d + 1)
              /\ SubSeq(after, d + 6, SlabSize) = SubSeq(before, d + 6, SlabSize)
              /\ Len(after) = SlabSize
              /\ UNCHANGED <<entrypoints, entrypointBufferWrite, entrypointBufferExec,
                             entrypointCount>>]_vars

\* a stub in the lower half of the address space has just been patched to a target
\* in the upper half so far away that the signed difference does not fit 32 bits, and
\* the jump arrives at the target
C16_Witness ==
    /\ lastOp.op = "patch"
    /\ lastOp.ret[4] >= 128
    /\ entrypoints[entrypointCount - 1].entrypointExec[4] < 128
    /\ Rel32(lastOp.ret, entrypoints[entrypointCount - 1].entrypointExec)[4] < 128
    /\ StubTarget(pages, entrypoints[entrypointCount - 1].entrypointExec) = lastOp.ret

====
